---- MODULE Spec2Model ----
(***************************************************************************)
(* A model of SD2OPP (CalcOPP): the PGRID codec (read_grid, write_grid),   *)
(* the density -> OPP transform and the orchestration calc_opp, with its   *)
(* three entry points (command line, GUI event 'sd_okay', direct call).    *)
(*                                                                         *)
(* Representation.                                                         *)
(*   string   a sequence of Unicode code points                            *)
(*   bytes    a sequence of byte cells <<kind, payload, k>>:               *)
(*              <<0, b, 0>>   the plain byte b (0..255)                    *)
(*              <<1, v, k>>   byte k (0..3) of the float32 with the finite *)
(*                            value v                                      *)
(*              <<2, 0, k>>   byte k of a float32 NaN                      *)
(*              <<3, s, k>>   byte k of the float32 s*infinity (s = 1,-1)  *)
(*            int32 values are stored as their four little-endian bytes;   *)
(*            the bit pattern of a float32 is kept opaque.                 *)
(*   float    <<1, v, 0>> finite, <<2, 0, 0>> NaN, <<3, s, 0>> s*infinity  *)
(*            a density v is the integer v; an OPP v is v * 1e-10 eV       *)
(***************************************************************************)
EXTENDS Integers, Sequences, FiniteSets, TLC

\* ----------------------------------------------------------------- bounds
\* longest free part of a string drawn for mbyte_truncate
MaxTail == 2
\* largest byte length drawn for mbyte_truncate besides TitleMax
MaxBytes == 6
\* most voxels of a density array drawn
MaxVoxels == 3
\* most records of an array given to write_grid directly
MaxRecords == 2

\* ------------------------------------------------------ program constants
\* width of the title slot of a grid file (read_file.read(80), ljust(80))
TitleSlot == 80
\* byte length calc_opp crops the title to
TitleMax == 79

\* ------------------------------------------------------------ sequences
IsPrefix(p, s) == Len(p) <= Len(s) /\ SubSeq(s, 1, Len(p)) = p

Take(s, n) == SubSeq(s, 1, IF n < Len(s) THEN n ELSE Len(s))

Drop(s, n) == SubSeq(s, n + 1, Len(s))

\* n times x (nothing for n <= 0)
Repeat(x, n) == [i \in 1 .. n |-> x]

\* the concatenation of ss[lo], ..., ss[hi], by halves
RECURSIVE FlattenRange(_, _, _)
FlattenRange(ss, lo, hi) ==
    IF lo > hi THEN <<>>
    ELSE IF lo = hi THEN ss[lo]
    ELSE LET mid == (lo + hi) \div 2
         IN  FlattenRange(ss, lo, mid) \o FlattenRange(ss, mid + 1, hi)

Flatten(ss) == FlattenRange(ss, 1, Len(ss))

\* ---------------------------------------------------------------- UTF-8
\* the code points strings are drawn from: 'a', e-acute, euro sign, U+1F600
CodePoints == {97, 233, 8364, 128512}

\* U+FFFD, what decode(errors='replace') puts for an invalid sequence
ReplacementChar == 65533

\* 'OPP from '
OPPFrom == <<79, 80, 80, 32, 102, 114, 111, 109, 32>>

\* str.encode('utf-8') of one code point, as numbers 0..255
EncodeCodePoint(c) ==
    IF c < 128 THEN <<c>>
    ELSE IF c < 2048 THEN <<192 + (c \div 64), 128 + (c % 64)>>
    ELSE IF c < 65536
        THEN <<224 + (c \div 4096), 128 + ((c \div 64) % 64), 128 + (c % 64)>>
    ELSE <<240 + (c \div 262144), 128 + ((c \div 4096) % 64),
           128 + ((c \div 64) % 64), 128 + (c % 64)>>

\* str.encode('utf-8'): the numbers 0..255 of the encoding
EncodeUtf8(s) == Flatten([i \in 1 .. Len(s) |-> EncodeCodePoint(s[i])])

IsCont(b) == b >= 128 /\ b <= 191

\* the range the second byte of a sequence led by b must lie in
SecondLo(b) == IF b = 224 THEN 160 ELSE IF b = 240 THEN 144 ELSE 128

SecondHi(b) == IF b = 237 THEN 159 ELSE IF b = 244 THEN 143 ELSE 191

\* number of bytes of the sequence a lead byte announces (0: not a lead byte)
SeqLen(b) ==
    IF b < 128 THEN 1
    ELSE IF b >= 194 /\ b <= 223 THEN 2
    ELSE IF b >= 224 /\ b <= 239 THEN 3
    ELSE IF b >= 240 /\ b <= 244 THEN 4
    ELSE 0

\* how many bytes from position i on form a valid start of one sequence
\* (the maximal subpart the decoder hands to its error handler)
ValidRun(bs, i) ==
    LET b == bs[i]
        n == SeqLen(b)
        ok2 == i + 1 <= Len(bs) /\ bs[i + 1] >= SecondLo(b) /\ bs[i + 1] <= SecondHi(b)
        ok3 == i + 2 <= Len(bs) /\ IsCont(bs[i + 2])
        ok4 == i + 3 <= Len(bs) /\ IsCont(bs[i + 3])
    IN  IF n <= 1 THEN 1
        ELSE IF ~ok2 THEN 1
        ELSE IF n = 2 THEN 2
        ELSE IF ~ok3 THEN 2
        ELSE IF n = 3 THEN 3
        ELSE IF ~ok4 THEN 3
        ELSE 4

\* the code point of the complete sequence of n bytes at position i
CodePointAt(bs, i, n) ==
    IF n = 1 THEN bs[i]
    ELSE IF n = 2 THEN (bs[i] - 192) * 64 + (bs[i + 1] - 128)
    ELSE IF n = 3
        THEN (bs[i] - 224) * 4096 + (bs[i + 1] - 128) * 64 + (bs[i + 2] - 128)
    ELSE (bs[i] - 240) * 262144 + (bs[i + 1] - 128) * 4096
         + (bs[i + 2] - 128) * 64 + (bs[i + 3] - 128)

\* bytes.decode('utf-8', errors) from position i; errors is "ignore" or
\* "replace"
\* (a run of bytes below 128 decodes to itself and is taken in one step)
RECURSIVE DecodeFrom(_, _, _)
DecodeFrom(bs, i, errors) ==
    IF i > Len(bs) THEN <<>>
    ELSE IF bs[i] < 128
    THEN LET high == {j \in i .. Len(bs) : bs[j] >= 128}
             end == IF high = {} THEN Len(bs) + 1
                    ELSE CHOOSE j \in high : \A k \in high : j <= k
         IN  SubSeq(bs, i, end - 1) \o DecodeFrom(bs, end, errors)
    ELSE LET n == SeqLen(bs[i])
             run == ValidRun(bs, i)
         IN  IF n >= 1 /\ run = n
             THEN <<CodePointAt(bs, i, n)>> \o DecodeFrom(bs, i + n, errors)
             ELSE (IF errors = "replace" THEN <<ReplacementChar>> ELSE <<>>)
                  \o DecodeFrom(bs, i + run, errors)

DecodeUtf8(bs, errors) == DecodeFrom(bs, 1, errors)

\* a plausible slip: the cropped bytes are decoded with errors='replace'
mbyte_truncate_replace(string, byte_length) ==
    DecodeUtf8(Take(EncodeUtf8(string), byte_length), "replace")

\* mbyte_truncate(string, byte_length, 'utf-8'), for byte_length >= 0
mbyte_truncate(string, byte_length) ==
    DecodeUtf8(Take(EncodeUtf8(string), byte_length), "ignore")

\* strings of at most n code points
RECURSIVE StringsUpTo(_)
StringsUpTo(n) ==
    IF n = 0 THEN {<<>>}
    ELSE LET shorter == StringsUpTo(n - 1)
         IN  shorter \cup {s \o <<c>> : s \in shorter, c \in CodePoints}

\* ------------------------------------------------------------ optional
\* None, and a value that is present (header['npos'], indices, extr)
None == <<>>

Some(x) == <<x>>

\* --------------------------------------------------------------- floats
Fin(v) == <<1, v, 0>>

NaN == <<2, 0, 0>>

Inf(s) == <<3, s, 0>>

\* a float32 read from four bytes that are not the bytes of one float32
OpaqueFloat == <<4, 0, 0>>

\* numpy.isfinite
IsFinite(f) == f[1] = 1

IsNaN(f) == f[1] = 2 \/ f[1] = 4

\* ---------------------------------------------------------------- bytes
PlainByte(b) == <<0, b, 0>>

PlainBytes(ns) == [i \in 1 .. Len(ns) |-> PlainByte(ns[i])]

\* the number a byte cell holds; a byte of a float32 is no valid UTF-8 byte
ByteValue(cell) == IF cell[1] = 0 THEN cell[2] ELSE 255

ByteValues(cells) == [i \in 1 .. Len(cells) |-> ByteValue(cells[i])]

\* an int32 read from four bytes that are not all plain bytes
OpaqueInt == -2139062144

\* the four little-endian bytes of the int32 v (two's complement)
Int32Bytes(v) ==
    LET u == IF v >= 0 THEN v ELSE (v + 2147483647) + 1
    IN  PlainBytes(<<u % 256, (u \div 256) % 256, (u \div 65536) % 256,
                     (u \div 16777216) + (IF v >= 0 THEN 0 ELSE 128)>>)

\* the int32 of the four bytes at positions i .. i+3
Int32At(bs, i) ==
    IF \E k \in 0 .. 3 : bs[i + k][1] # 0 THEN OpaqueInt
    ELSE LET b0 == bs[i][2]
             b1 == bs[i + 1][2]
             b2 == bs[i + 2][2]
             b3 == bs[i + 3][2]
             low == b0 + 256 * b1 + 65536 * b2
         IN  IF b3 < 128 THEN low + 16777216 * b3
             ELSE ((low + 16777216 * (b3 - 128)) - 2147483647) - 1

\* the bytes of an array of int32
Int32ArrayBytes(vs) == Flatten([k \in 1 .. Len(vs) |-> Int32Bytes(vs[k])])

\* the n int32 from position i on
Int32ArrayAt(bs, i, n) == [k \in 1 .. n |-> Int32At(bs, i + 4 * (k - 1))]

\* the four bytes of the float32 f
FloatBytes(f) == [k \in 1 .. 4 |-> <<f[1], f[2], k - 1>>]

\* the float32 of the four bytes at positions i .. i+3
FloatAt(bs, i) ==
    IF /\ bs[i][1] \in {1, 2, 3}
       /\ \A k \in 0 .. 3 : bs[i + k] = <<bs[i][1], bs[i][2], k>>
    THEN <<bs[i][1], bs[i][2], 0>>
    ELSE OpaqueFloat

FloatArrayBytes(arr) == Flatten([k \in 1 .. Len(arr) |-> FloatBytes(arr[k])])

FloatArrayAt(bs, i, n) == [k \in 1 .. n |-> FloatAt(bs, i + 4 * (k - 1))]

\* ----------------------------------------------------------- grid files
\* byte offsets (from 1) of the fixed part of the header, in field order:
\* version 4i4, title 80 bytes, gtype, ftype, nval, ndim, ngrid 3i4, nasym,
\* cell 6f4; the symmetry block of an indexed file follows
OffTitle == 17

OffGtype == OffTitle + TitleSlot

OffFtype == OffGtype + 4

OffNval == OffFtype + 4

OffNdim == OffNval + 4

OffNgrid == OffNdim + 4

OffNasym == OffNgrid + 12

OffCell == OffNasym + 4

OffSym == OffCell + 24

\* bytes.find(b'\x00'): the number of bytes before the first zero byte, -1
\* when there is none
FindZero(ns) ==
    LET zeros == {i \in 1 .. Len(ns) : ns[i] = 0}
    IN  IF zeros = {} THEN -1
        ELSE (CHOOSE i \in zeros : \A j \in zeros : i <= j) - 1

\* title_raw[:title_raw.find(b'\x00')].decode(encoding='utf-8',
\* errors='replace'); a slice end of -1 drops the last byte
DecodeTitle(title_raw) ==
    LET ns == ByteValues(title_raw)
        z == FindZero(ns)
        end == IF z >= 0 THEN z ELSE IF Len(ns) = 0 THEN 0 ELSE Len(ns) - 1
    IN  DecodeUtf8(SubSeq(ns, 1, end), "replace")

\* bytes.ljust(80, b'\x00'): pads, and never shortens
Ljust(ns, width) == ns \o Repeat(0, width - Len(ns))

\* the header read_grid has when it fails before a field is read
NoHeader ==
    [version |-> <<>>, title |-> <<>>, gtype |-> 0, ftype |-> 0, nval |-> 0,
     ndim |-> 0, ngrid |-> <<>>, nasym |-> 0, cell |-> <<>>, npos |-> None,
     ncen |-> None, nsub |-> None, symop |-> None, subposp |-> None]

\* a slip: a version that is not supported is fatal
ReadResult_strict(exc, msg, header, indices, data, warned) ==
    [exc |-> IF warned /\ exc = "" THEN "SystemExit" ELSE exc,
     msg |-> IF warned /\ exc = "" THEN "Input file version not supported." ELSE msg,
     header |-> IF warned THEN NoHeader ELSE header,
     indices |-> IF warned THEN None ELSE indices,
     data |-> IF warned THEN <<>> ELSE data,
     warned |-> warned]

\* a slip: the indices read are not returned
ReadResult_noindex(exc, msg, header, indices, data, warned) ==
    [exc |-> exc, msg |-> msg, header |-> header, indices |-> None,
     data |-> data, warned |-> warned]

\* what a call returns or raises: exc = "" on success
ReadResult(exc, msg, header, indices, data, warned) ==
    [exc |-> exc, msg |-> msg, header |-> header, indices |-> indices,
     data |-> data, warned |-> warned]

\* a slip: every failure carries the message of the first check
ReadFailure_first(exc, msg, warned) ==
    ReadResult(exc, IF exc = "SystemExit" THEN "File record type not supported." ELSE msg,
               NoHeader, None, <<>>, warned)

ReadFailure(exc, msg, warned) == ReadResult(exc, msg, NoHeader, None, <<>>, warned)

\* a slip: only the positive component of a record is taken
AddFloat_first(a, b) == a

\* the sum of the two float32 of a record with both values
AddFloat(a, b) ==
    IF a[1] = 4 \/ b[1] = 4 THEN OpaqueFloat
    ELSE IF a[1] = 2 \/ b[1] = 2 THEN NaN
    ELSE IF a[1] = 3 /\ b[1] = 3 THEN (IF a[2] = b[2] THEN a ELSE NaN)
    ELSE IF a[1] = 3 THEN a
    ELSE IF b[1] = 3 THEN b
    ELSE Fin(a[2] + b[2])

\* a slip: the last record of the file is not read
RecordCount_short(bs, i, size) ==
    IF i + size > Len(bs) + 1 THEN 0 ELSE (Len(bs) - i + 1) \div size - 1

\* the records numpy.fromfile reads from position i to the end of the file:
\* whole records of size bytes only
RecordCount(bs, i, size) == IF i > Len(bs) + 1 THEN 0 ELSE (Len(bs) - i + 1) \div size

\* read_grid(file) on the bytes of the file
read_grid(bs) ==
    LET has(i, n) == i + n - 1 <= Len(bs)
        version == Int32ArrayAt(bs, 1, 4)
        warned == version # <<3, 0, 0, 0>>
        title == DecodeTitle(SubSeq(bs, OffTitle,
                     IF Len(bs) < OffGtype - 1 THEN Len(bs) ELSE OffGtype - 1))
        gtype == Int32At(bs, OffGtype)
        ftype == Int32At(bs, OffFtype)
        nval == Int32At(bs, OffNval)
        ndim == Int32At(bs, OffNdim)
        ngrid == Int32ArrayAt(bs, OffNgrid, 3)
        nasym == Int32At(bs, OffNasym)
        cell == FloatArrayAt(bs, OffCell, 6)
        npos == Int32At(bs, OffSym)
        ncen == Int32At(bs, OffSym + 4)
        nsub == Int32At(bs, OffSym + 8)
        \* numpy.fromfile(count=npos): npos operators, or all the whole
        \* operators present for npos < 0; with fewer than npos whole
        \* operators present it takes all that is left of the file, and the
        \* next read, of subposp, finds nothing
        symAvail == RecordCount(bs, OffSym + 12, 48)
        symShort == npos > symAvail
        nsym == IF npos < 0 \/ symShort THEN symAvail ELSE npos
        symop == [k \in 1 .. nsym |-> Int32ArrayAt(bs, OffSym + 12 + 48 * (k - 1), 12)]
        offSub == OffSym + 12 + 48 * nsym
        subposp == Int32ArrayAt(bs, offSub, 3)
        offData == IF ftype = 1 THEN offSub + 12 ELSE OffSym
        recSize == (IF ftype = 1 THEN 4 ELSE 0) + 4 * nval
        n == RecordCount(bs, offData, recSize)
        valueAt(k) ==
            LET at == offData + recSize * (k - 1) + (IF ftype = 1 THEN 4 ELSE 0)
            IN  IF nval = 2 THEN AddFloat(FloatAt(bs, at), FloatAt(bs, at + 4))
                ELSE FloatAt(bs, at)
        data == [k \in 1 .. n |-> valueAt(k)]
        indices == IF ftype = 1
                   THEN Some([k \in 1 .. n |-> Int32At(bs, offData + recSize * (k - 1))])
                   ELSE None
        header == [version |-> version, title |-> title, gtype |-> gtype,
                   ftype |-> ftype, nval |-> nval, ndim |-> ndim, ngrid |-> ngrid,
                   nasym |-> nasym, cell |-> cell,
                   npos |-> IF ftype = 1 THEN Some(npos) ELSE None,
                   ncen |-> IF ftype = 1 THEN Some(ncen) ELSE None,
                   nsub |-> IF ftype = 1 THEN Some(nsub) ELSE None,
                   symop |-> IF ftype = 1 THEN Some(symop) ELSE None,
                   subposp |-> IF ftype = 1 THEN Some(subposp) ELSE None]
        short(w) == ReadFailure("IndexError", "index 0 is out of bounds", w)
    IN  IF ~has(1, 16) THEN short(FALSE)
        ELSE IF ~has(OffGtype, 4) THEN short(warned)
        ELSE IF ~has(OffFtype, 4) THEN short(warned)
        ELSE IF ftype \notin {0, 1}
            THEN ReadFailure("SystemExit", "File record type not supported.", warned)
        ELSE IF ~has(OffNval, 4) THEN short(warned)
        ELSE IF nval \notin {1, 2}
            THEN ReadFailure("SystemExit",
                             "Unable to handle number of values per voxel.", warned)
        ELSE IF ~has(OffNdim, 4) THEN short(warned)
        ELSE IF ndim # 3
            THEN ReadFailure("SystemExit",
                             "Unit cell must be three-dimensional in this version.",
                             warned)
        ELSE IF ~has(OffNgrid, 12) \/ ~has(OffNasym, 4) \/ ~has(OffCell, 24)
            THEN short(warned)
        ELSE IF ftype = 1 /\ (~has(OffSym, 12) \/ symShort \/ ~has(offSub, 12))
            THEN short(warned)
        ELSE ReadResult("", IF n # nasym THEN "Number of found records differs" ELSE "",
                        header, indices, data, warned)

\* a slip: the header goes to the file as the caller gave it
WriteHeader_kept(header, data) == header

\* header['nval'] = 1 and header['nasym'] = data.size, as write_grid sets
\* them in the caller's dictionary before it opens the file
WriteHeader(header, data) == [header EXCEPT !.nval = 1, !.nasym = Len(data)]

\* a slip: the records are written last first
ZippedBytes_reversed(indices, data) ==
    LET n == IF Len(indices) < Len(data) THEN Len(indices) ELSE Len(data)
    IN  Flatten([k \in 1 .. n |-> Int32Bytes(indices[n + 1 - k])
                                  \o FloatBytes(data[n + 1 - k])])

\* numpy.fromiter(zip(indices, data), ...): pairs up to the shorter array
ZippedBytes(indices, data) ==
    LET n == IF Len(indices) < Len(data) THEN Len(indices) ELSE Len(data)
    IN  Flatten([k \in 1 .. n |-> Int32Bytes(indices[k]) \o FloatBytes(data[k])])

\* the arguments of write_grid's calls of write_file.write, in order
WriteChunks(header, indices, data) ==
    LET h == WriteHeader(header, data)
        fixed == <<Int32ArrayBytes(h.version),
                   PlainBytes(Ljust(EncodeUtf8(h.title), TitleSlot)),
                   Int32Bytes(h.gtype), Int32Bytes(h.ftype), Int32Bytes(h.nval),
                   Int32Bytes(h.ndim), Int32ArrayBytes(h.ngrid),
                   Int32Bytes(h.nasym), FloatArrayBytes(h.cell)>>
    IN  IF h.ftype = 1
        THEN fixed \o <<Int32Bytes(h.npos[1]), Int32Bytes(h.ncen[1]),
                        Int32Bytes(h.nsub[1]),
                        Flatten([k \in 1 .. Len(h.symop[1]) |->
                                     Int32ArrayBytes(h.symop[1][k])]),
                        Int32ArrayBytes(h.subposp[1]),
                        ZippedBytes(indices[1], data)>>
        ELSE fixed \o <<FloatArrayBytes(data)>>

\* the file write_grid leaves when done bytes have reached it. The file
\* object buffers what write_file.write is given: the bytes reach the file
\* when the buffer is flushed, by a later write or when the with block
\* closes the file, and an I/O error is raised there; the file then holds
\* the first done bytes of the complete file, which need not end where an
\* argument of write ends (open(file, 'wb') has truncated the file)
write_grid(header, indices, data, done) ==
    Take(Flatten(WriteChunks(header, indices, data)), done)

\* the number of bytes a complete write_grid writes
WriteSize(header, indices, data) == Len(Flatten(WriteChunks(header, indices, data)))

\* ------------------------------------------------------------ transform
\* the Boltzmann constant in 1e-7 eV/K (1.380649e-23 / 1.602176634e-19 =
\* 8.617e-5 eV/K)
K_B == 862

\* 1000 * ln(n) for n = 1 .. 10, rounded so that ln(a*b) = ln(a) + ln(b)
LnMilli == <<0, 693, 1099, 1386, 1609, 1792, 1946, 2079, 2198, 2302>>

Abs(x) == IF x < 0 THEN -x ELSE x

Sign(x) == IF x < 0 THEN -1 ELSE 1

\* numpy.log(v / extr) in 1e-3, for a float32 v and the extremal value extr;
\* the floating-point errors are not trapped: x/0 is an infinity or, for
\* 0/0, NaN; log(0) is -infinity and the log of a negative number NaN
LogRatio(v, extr) ==
    IF v[1] \notin {1, 3} \/ extr[1] \notin {1, 3} THEN NaN
    ELSE IF v[1] = 3 /\ extr[1] = 3 THEN NaN
    ELSE IF v[1] = 3 THEN (IF v[2] * Sign(extr[2]) > 0 THEN Inf(1) ELSE NaN)
    ELSE IF extr[1] = 3 THEN Inf(-1)
    ELSE IF extr[2] = 0
        THEN (IF v[2] > 0 THEN Inf(1) ELSE NaN)
    ELSE IF v[2] = 0 THEN Inf(-1)
    ELSE IF v[2] * extr[2] < 0 THEN NaN
    ELSE Fin(LnMilli[Abs(v[2])] - LnMilli[Abs(extr[2])])

\* the product of the finite number c and the float x
Scale(c, x) ==
    IF x[1] = 1 THEN Fin(c * x[2])
    ELSE IF x[1] = 3
        THEN (IF c = 0 THEN NaN ELSE Inf(Sign(c) * x[2]))
    ELSE NaN

\* -K_B * temp * numpy.log(input_data/extr), element by element, in 1e-10 eV
RawOpp(input_data, temp, extr) ==
    [k \in 1 .. Len(input_data) |-> Scale(-(K_B * temp), LogRatio(input_data[k], extr))]

\* a <= b for two floats that are not NaN
FloatLeq(a, b) ==
    IF a[1] = 3 THEN (a[2] < 0 \/ b = a)
    ELSE IF b[1] = 3 THEN b[2] > 0
    ELSE a[2] <= b[2]

\* numpy.nanmax of a non-empty array: the largest entry that is not NaN,
\* infinities included; NaN (and a warning) when every entry is NaN
NanMax(arr) ==
    LET nums == {k \in 1 .. Len(arr) : ~IsNaN(arr[k])}
    IN  IF nums = {} THEN NaN
        ELSE arr[CHOOSE k \in nums : \A j \in nums : FloatLeq(arr[j], arr[k])]

\* a slip: the minimum is taken where the largest entry is
ArrayMin_largest(arr) ==
    IF \E k \in 1 .. Len(arr) : IsNaN(arr[k]) THEN NaN
    ELSE arr[CHOOSE k \in 1 .. Len(arr) : \A j \in 1 .. Len(arr) : FloatLeq(arr[j], arr[k])]

\* ndarray.min() and ndarray.max() of a non-empty array
ArrayMin(arr) ==
    IF \E k \in 1 .. Len(arr) : IsNaN(arr[k]) THEN NaN
    ELSE arr[CHOOSE k \in 1 .. Len(arr) : \A j \in 1 .. Len(arr) : FloatLeq(arr[k], arr[j])]

\* a slip: the smallest entry
ArrayMax_smallest(arr) ==
    IF \E k \in 1 .. Len(arr) : IsNaN(arr[k]) THEN NaN
    ELSE arr[CHOOSE k \in 1 .. Len(arr) : \A j \in 1 .. Len(arr) : FloatLeq(arr[k], arr[j])]

ArrayMax(arr) ==
    IF \E k \in 1 .. Len(arr) : IsNaN(arr[k]) THEN NaN
    ELSE arr[CHOOSE k \in 1 .. Len(arr) : \A j \in 1 .. Len(arr) : FloatLeq(arr[j], arr[k])]

\* output_data[numpy.logical_not(numpy.isfinite(output_data))] = max_opp
Clamp(output_data, max_opp) ==
    [k \in 1 .. Len(output_data) |->
        IF IsFinite(output_data[k]) THEN output_data[k] ELSE max_opp]

\* the least float in 1e-10 eV whose half '%.2f' prints as 0.01, 0.02, ...,
\* 0.11: the float32 next to an odd number of hundredths of an eV lies below
\* or above it, and the digits printed are those of the float32
IsoSteps ==
    <<100000003, 300000003, 499999989, 699999966, 899999999, 1100000032,
      1300000027, 1499999986, 1699999944, 1900000051, 2100000009>>

\* '%.2f' % isovalue for isovalue = 0.5 * max_opp: hundredths of an eV, or
\* the float itself when it is not finite
Isovalue(max_opp) ==
    IF max_opp[1] # 1 THEN max_opp
    ELSE Fin(Sign(max_opp[2])
             * Cardinality({j \in 1 .. Len(IsoSteps) : Abs(max_opp[2]) >= IsoSteps[j]}))

\* ---------------------------------------------------------- file system
\* a file name: what os.path.splitext splits it into
Path(base, ext) == [base |-> base, ext |-> ext]

\* the empty string as a file name (an empty GUI field)
EmptyPath == Path("", "")

\* os.path.splitext(output_file)[0] + '.vesta'
StubPath(output_file) == Path(output_file.base, ".vesta")

\* the text of a *.vesta file after the first lines calls of file.write (9 in
\* all): the title line comes with the 3rd, the name of the grid file with the
\* 4th, the record type and the isovalue with the 8th
NoStub == [title |-> <<>>, grid |-> EmptyPath, rtype |-> 0, iso |-> NaN, lines |-> 0]

VestaWrites == 9

\* a file: absent, a binary file holding bytes, or a text file holding a stub
Absent == [kind |-> "absent", bytes |-> <<>>, stub |-> NoStub]

Binary(bs) == [kind |-> "binary", bytes |-> bs, stub |-> NoStub]

TextFile(stub) == [kind |-> "text", bytes |-> <<>>, stub |-> stub]

\* a slip: the output is opened with 'ab', which keeps what the file held
written_file_appended(old, header, indices, data, done) ==
    IF done < 0 THEN old
    ELSE Binary(old.bytes \o write_grid(header, indices, data, done))

\* the file at the path given to write_grid, old before the call, after it:
\* open(file, 'wb') fails and leaves it (done = -1), or truncates it, and the
\* first done bytes reach it
written_file(old, header, indices, data, done) ==
    IF done < 0 THEN old ELSE Binary(write_grid(header, indices, data, done))

\* the file create_vesta(output_file, title, isovalue, record_type) leaves
\* when the first done of the strings it gives to file.write have reached
\* the file whole (open(..., 'w') has truncated the file; the file object
\* buffers the strings, and the part of a further string that an I/O error
\* leaves in the file is not kept here)
create_vesta(output_file, title, max_opp, record_type, done) ==
    TextFile([title |-> IF done >= 3 THEN title ELSE <<>>,
              grid |-> IF done >= 4 THEN output_file ELSE EmptyPath,
              rtype |-> IF done >= 8 THEN record_type ELSE 0,
              iso |-> IF done >= 8 THEN Isovalue(max_opp) ELSE NaN,
              lines |-> done])

\* a file object: the path it was opened on, the mode, and the function
\* that opened it
Handle(path, mode, by) == [path |-> path, mode |-> mode, by |-> by]

\* the open file objects after a block 'with open(...) as f:' was left, by
\* its end, by return or by an exception: f is closed (nothing was opened
\* when open itself failed)
Scoped(hs, h, opened) == IF opened THEN (hs \cup {h}) \ {h} ELSE hs

\* ----------------------------------------------------------- entry layer
\* the text of a number field: float(text) raises ValueError unless num
NumText(val) == [num |-> TRUE, val |-> val]

BadText == [num |-> FALSE, val |-> 0]

\* non_zero_float(string): whether it returns (it raises ArgumentTypeError
\* otherwise); is_float(string) of the GUI is the same test
non_zero_float(string) == string.num /\ string.val # 0

is_float(string) == string.num /\ string.val # 0

\* pos_float(string), and is_pos_float(string) of the GUI
pos_float(string) == string.num /\ string.val > 0

is_pos_float(string) == string.num /\ string.val > 0

\* the parameters of calc_opp
CallArgs(input_file, output_file, temp, source, extr) ==
    [input_file |-> input_file, output_file |-> output_file, temp |-> temp,
     source |-> source, extr |-> extr]

NoArgs == CallArgs(EmptyPath, EmptyPath, 0, "", None)

\* the options of the group a command line gives, each once however often
\* it is repeated
OptionsGiven(flags) == {flags[i] : i \in 1 .. Len(flags)}

\* a slip: the options of the group do not exclude each other
parse_arguments_inclusive(req, f) ==
    LET given(flag) == \E i \in 1 .. Len(req.flags) : req.flags[i] = flag
        optErr == given("ext") /\ ~non_zero_float(req.extr[1])
        reached == ~(req.flags_first /\ optErr)
        inOk == f[req.input].kind # "absent"
        opened == reached /\ inOk
        ok == ~optErr /\ inOk /\ pos_float(req.temp) /\ Len(req.flags) >= 1
        source == IF given("min") THEN "min" ELSE IF given("max") THEN "max" ELSE "custom"
    IN  [exit |-> IF ok THEN 0 ELSE 2,
         fs |-> IF opened THEN [f EXCEPT ![req.output] = Binary(<<>>)] ELSE f,
         handles |-> IF opened
                     THEN {Handle(req.input, "rb", "parse_arguments"),
                           Handle(req.output, "wb", "parse_arguments")}
                     ELSE {},
         args |-> IF ok
                  THEN CallArgs(req.input, req.output, req.temp.val, source,
                                IF source = "custom" THEN Some(Fin(req.extr[1].val))
                                ELSE None)
                  ELSE NoArgs]

\* parse_arguments() and the lines of __main__ that follow it, for the
\* command line req on the file system f. argparse converts the arguments in
\* the order of the command line, and FileType('rb') and FileType('wb') open
\* input and output when they are converted: the options are handled before
\* the positionals when they come first (req.flags_first), after them
\* otherwise; an option of the group conflicts with another option of the
\* group given before it, not with itself given again; that one option of
\* the group was given is checked last. The
\* file objects FileType has opened are in the namespace returned (handles);
\* the program uses their names only and never closes them.
parse_arguments(req, f) ==
    LET given(flag) == \E i \in 1 .. Len(req.flags) : req.flags[i] = flag
        optErr == \/ Cardinality(OptionsGiven(req.flags)) > 1
                  \/ given("ext") /\ ~non_zero_float(req.extr[1])
        reached == ~(req.flags_first /\ optErr)
        inOk == f[req.input].kind # "absent"
        opened == reached /\ inOk
        ok == ~optErr /\ inOk /\ pos_float(req.temp) /\ req.flags # <<>>
        source == IF given("min") THEN "min" ELSE IF given("max") THEN "max" ELSE "custom"
    IN  [exit |-> IF ok THEN 0 ELSE 2,
         fs |-> IF opened THEN [f EXCEPT ![req.output] = Binary(<<>>)] ELSE f,
         handles |-> IF opened
                     THEN {Handle(req.input, "rb", "parse_arguments"),
                           Handle(req.output, "wb", "parse_arguments")}
                     ELSE {},
         args |-> IF ok
                  THEN CallArgs(req.input, req.output, req.temp.val, source,
                                IF source = "custom" THEN Some(Fin(req.extr[1].val))
                                ELSE None)
                  ELSE NoArgs]

\* a slip: the output is not compared with the input
sd_okay_valid_same(req, f) ==
    /\ req.input # EmptyPath
    /\ f[req.input].kind # "absent"
    /\ req.output # EmptyPath
    /\ is_pos_float(req.temp)
    /\ (req.flags[1] = "ext" => is_float(req.extr[1]))

\* the checks of the GUI's event 'sd_okay' on the form values req: whether
\* error_message stays empty
sd_okay_valid(req, f) ==
    /\ req.input # EmptyPath
    /\ f[req.input].kind # "absent"
    /\ req.output # EmptyPath
    /\ req.output # req.input
    /\ is_pos_float(req.temp)
    /\ (req.flags[1] = "ext" => is_float(req.extr[1]))

\* the call of sd2opp.calc_opp the event 'sd_okay' makes
sd_okay_args(req) ==
    LET source == IF req.flags[1] = "min" THEN "min"
                  ELSE IF req.flags[1] = "max" THEN "max" ELSE "custom"
    IN  CallArgs(req.input, req.output, req.temp.val, source,
                 IF source = "custom" THEN Some(Fin(req.extr[1].val)) ELSE None)

\* a direct call calc_opp(input_file, output_file, temp, source, extr)
direct_args(req) ==
    CallArgs(req.input, req.output, req.temp.val, req.flags[1],
             IF req.extr = None THEN None ELSE Some(Fin(req.extr[1].val)))

\* ------------------------------------------------------------- variables
\* entry        the entry point of the run: "cli", "gui", "api"; "codec" for
\*              a direct call of write_grid, "none" for mbyte_truncate alone
\* pc           where the run is
\* request      the command line, the form values or the parameters given
\* fs, fs0      the files by name, now and when the run started
\* args         the parameters calc_opp was called with
\* header, indices, input_data   what read_grid returned (header is the
\*              dictionary write_grid changes)
\* header0      header as read_grid returned it, or as a direct call of
\*              write_grid was given it
\* extr         the extremal density (None until it is found)
\* output_data, max_opp          the result of the transform
\* exc          what was raised, kind "" for nothing
\* stdout       the lines printed
\* readback     what read_grid returns for the file a direct write_grid wrote
\* handles      the file objects that are open
\* gui          the GUI: whether the button 'sd_okay' is disabled, the popup
\*              that is open and waits for the user, the popup opened last,
\*              whether the error popup has copied its message and composed
\*              an e-mail, whether the program is running
\* t_pc, t_string, t_len, t_out  one call of mbyte_truncate
VARIABLES entry, pc, request, fs, fs0, args, header, header0, indices,
          input_data, extr, output_data, max_opp, exc, stdout, readback, handles,
          gui, t_pc, t_string, t_len, t_out

tvars == <<t_pc, t_string, t_len, t_out>>

pvars == <<entry, pc, request, fs, fs0, args, header, header0, indices,
           input_data, extr, output_data, max_opp, exc, stdout, readback, handles,
           gui>>

vars == <<pvars, tvars>>

Exc(kind, msg) == [kind |-> kind, msg |-> msg]

NoExc == Exc("", "")

\* whether an exception of this kind is an instance of Exception (SystemExit
\* derives from BaseException only)
IsException(kind) == kind # "SystemExit"

NoRead == ReadFailure("", "", FALSE)

\* the main window before the event 'sd_okay'
GuiIdle ==
    [disabled |-> FALSE, popup |-> "", shown |-> "", copied |-> FALSE,
     mailed |-> FALSE, running |-> TRUE]

NoRequest ==
    [input |-> EmptyPath, output |-> EmptyPath, temp |-> BadText, flags |-> <<>>,
     flags_first |-> FALSE, extr |-> None]

\* ------------------------------------------------------- the files drawn
InputPath == Path("a", ".pgrid")

OutputPath == Path("b", ".pgrid")

AllPaths == {InputPath, OutputPath, StubPath(InputPath), StubPath(OutputPath)}

\* what a file that is there before the run holds
OldBytes == PlainBytes(<<79, 76, 68>>)

StdCell == <<Fin(4), Fin(4), Fin(4), Fin(90), Fin(90), Fin(90)>>

StdSymop == <<1, 0, 0, 0, 0, 1, 0, 0, 0, 0, 1, 0>>

\* a header as a grid file holds it
GridHeader(version, title, ftype, nval, ndim, nasym) ==
    [version |-> version, title |-> title, gtype |-> 1, ftype |-> ftype,
     nval |-> nval, ndim |-> ndim, ngrid |-> <<2, 2, 1>>, nasym |-> nasym,
     cell |-> StdCell,
     npos |-> IF ftype = 1 THEN Some(1) ELSE None,
     ncen |-> IF ftype = 1 THEN Some(0) ELSE None,
     nsub |-> IF ftype = 1 THEN Some(1) ELSE None,
     symop |-> IF ftype = 1 THEN Some(<<StdSymop>>) ELSE None,
     subposp |-> IF ftype = 1 THEN Some(<<0, 0, 0>>) ELSE None]

\* the bytes of a grid file in the layout read_grid parses: the header h,
\* then the records; record k holds the index idx[k] (indexed files) and the
\* floats vals[k]
GridBytes(h, idx, vals) ==
    Int32ArrayBytes(h.version)
    \o PlainBytes(Take(Ljust(EncodeUtf8(h.title), TitleSlot), TitleSlot))
    \o Int32Bytes(h.gtype) \o Int32Bytes(h.ftype) \o Int32Bytes(h.nval)
    \o Int32Bytes(h.ndim) \o Int32ArrayBytes(h.ngrid) \o Int32Bytes(h.nasym)
    \o FloatArrayBytes(h.cell)
    \o (IF h.ftype = 1
        THEN Int32Bytes(h.npos[1]) \o Int32Bytes(h.ncen[1]) \o Int32Bytes(h.nsub[1])
             \o Flatten([k \in 1 .. Len(h.symop[1]) |-> Int32ArrayBytes(h.symop[1][k])])
             \o Int32ArrayBytes(h.subposp[1])
        ELSE <<>>)
    \o Flatten([k \in 1 .. Len(vals) |->
                   (IF h.ftype = 1 THEN Int32Bytes(idx[k]) ELSE <<>>)
                   \o FloatArrayBytes(vals[k])])

\* the densities of the voxels drawn
Densities == {-2, -1, 0, 1, 2}

RECURSIVE ArraysUpTo(_, _)
ArraysUpTo(S, n) ==
    IF n = 0 THEN {<<>>}
    ELSE LET shorter == ArraysUpTo(S, n - 1)
         IN  shorter \cup {a \o <<x>> : a \in shorter, x \in S}

\* raw single-valued files with a right header, one for every array of
\* densities of at most MaxVoxels voxels
DensityFiles ==
    {GridBytes(GridHeader(<<3, 0, 0, 0>>, <<97>>, 0, 1, 3, Len(d)), <<>>,
               [k \in 1 .. Len(d) |-> <<Fin(d[k])>>]) :
        d \in ArraysUpTo(Densities, MaxVoxels)}

\* the titles of the files drawn: short ones, and ones that 'OPP from '
\* brings to the crop length
InputTitles ==
    {<<97>>, <<233, 97>>, Repeat(97, TitleMax - Len(OPPFrom)),
     Repeat(97, TitleMax - Len(OPPFrom) - 1) \o <<8364>>,
     Repeat(97, TitleMax - 2) \o <<233>>}

\* files with two records (densities 2 and 1) under every header drawn
\* with one of the titles
HeaderFilesTitled(titles) ==
    {GridBytes(GridHeader(version, title, ftype, nval, ndim, nasym), <<7, 3>>,
               IF nval = 2 THEN << <<Fin(1), Fin(1)>>, <<Fin(3), Fin(-2)>> >>
               ELSE << <<Fin(2)>>, <<Fin(1)>> >>) :
        version \in {<<3, 0, 0, 0>>, <<2, 0, 0, 0>>}, title \in titles,
        ftype \in {0, 1, 2}, nval \in {1, 2, 3}, ndim \in {3, 2}, nasym \in {2, 5}}

HeaderFiles == HeaderFilesTitled(InputTitles)

\* an indexed file of two records that holds one symmetry operator and whose
\* header gives npos as their number
IndexedFile(npos) ==
    GridBytes([GridHeader(<<3, 0, 0, 0>>, <<97>>, 1, 1, 3, 2) EXCEPT !.npos = Some(npos)],
              <<7, 3>>, << <<Fin(2)>>, <<Fin(1)>> >>)

\* indexed files whose npos is not the number of operators they hold, and
\* an indexed file cut within its operator, before its end and after its
\* first record
SymmetryFiles ==
    {IndexedFile(npos) : npos \in {-1, 1, 2}}
    \cup {Take(IndexedFile(1), OffSym + k) : k \in {27, 58, 79}}

\* the file the requests drawn are made on: densities 2, 0, -2, 1
StdFile ==
    GridBytes(GridHeader(<<3, 0, 0, 0>>, <<97>>, 0, 1, 3, 4), <<>>,
              << <<Fin(2)>>, <<Fin(0)>>, <<Fin(-2)>>, <<Fin(1)>> >>)

Request(input, output, temp, flags, flags_first, extr_text) ==
    [input |-> input, output |-> output, temp |-> temp, flags |-> flags,
     flags_first |-> flags_first, extr |-> extr_text]

TempTexts == {NumText(300), NumText(0), NumText(-5), BadText}

ExtrTexts == {NumText(2), NumText(0), BadText}

\* command lines: the three positionals and at most two options of the
\* group (two different ones, or one given twice), before or after them
CliRequests ==
    {Request(InputPath, OutputPath, temp, flags, first,
             IF \E i \in 1 .. Len(flags) : flags[i] = "ext" THEN Some(x) ELSE None) :
        temp \in TempTexts,
        flags \in {<<>>, <<"min">>, <<"max">>, <<"ext">>, <<"min", "max">>,
                   <<"ext", "min">>, <<"max", "max">>, <<"ext", "ext">>},
        first \in BOOLEAN, x \in ExtrTexts}

\* form values of the GUI
GuiRequests ==
    {Request(input, output, temp, <<radio>>, FALSE, Some(x)) :
        input \in {EmptyPath, InputPath}, output \in {EmptyPath, InputPath, OutputPath},
        temp \in TempTexts, radio \in {"min", "max", "ext"}, x \in ExtrTexts}

\* direct calls: any source string, extr given or not
ApiRequests ==
    {Request(InputPath, OutputPath, temp, <<source>>, FALSE, x) :
        temp \in {NumText(300), NumText(0), NumText(-5)},
        source \in {"min", "max", "custom", "other"},
        x \in {None, Some(NumText(2)), Some(NumText(0)), Some(NumText(-1))}}

\* a request that passes every check of its entry layer
GoodRequest(flags, x) == Request(InputPath, OutputPath, NumText(300), flags, FALSE, x)

\* form values that pass the checks of the GUI
GoodGuiRequest ==
    Request(InputPath, OutputPath, NumText(300), <<"max">>, FALSE, Some(NumText(2)))

\* a good request whose output grid is named b.vesta
VestaNamedRequest(e) ==
    Request(InputPath, StubPath(OutputPath), NumText(300), <<"max">>, FALSE,
            IF e = "gui" THEN Some(NumText(2)) ELSE None)

\* a good command line or call whose output is its input
SameFileRequest == Request(InputPath, InputPath, NumText(300), <<"max">>, FALSE, None)

\* a good request whose input is named a.vesta and whose output a.pgrid
StubOnInputRequest(e) ==
    Request(StubPath(InputPath), InputPath, NumText(300), <<"max">>, FALSE,
            IF e = "gui" THEN Some(NumText(2)) ELSE None)

\* the runs drawn: every array of densities under every policy, every header
\* under one policy, every request on one file (with the input there or
\* missing, the output there or not), one request for an output named
\* *.vesta from every entry, the GUI on every header, requests whose output
\* or whose stub is the input, one policy on indexed files with a symmetry
\* block that is short or not as long as npos says
Scenarios ==
    {[entry |-> e, req |-> r, file |-> Binary(b), old |-> Absent] :
        e \in {"cli", "api"},
        r \in {GoodRequest(<<"min">>, None), GoodRequest(<<"max">>, None)},
        b \in DensityFiles}
    \cup
    {[entry |-> "api", req |-> GoodRequest(<<"custom">>, Some(NumText(x))),
      file |-> Binary(b), old |-> Absent] :
        x \in {2, -1}, b \in DensityFiles}
    \cup
    {[entry |-> "api", req |-> GoodRequest(<<"max">>, None), file |-> Binary(b),
      old |-> Absent] : b \in HeaderFiles}
    \cup
    {[entry |-> "cli", req |-> r, file |-> f, old |-> o] :
        r \in CliRequests, f \in {Binary(StdFile), Absent},
        o \in {Absent, Binary(OldBytes)}}
    \cup
    {[entry |-> "gui", req |-> r, file |-> f, old |-> Absent] :
        r \in GuiRequests, f \in {Binary(StdFile), Absent}}
    \cup
    {[entry |-> "api", req |-> r, file |-> Binary(StdFile), old |-> Absent] :
        r \in ApiRequests}
    \cup
    {[entry |-> "gui", req |-> GoodGuiRequest, file |-> Binary(b), old |-> Absent] :
        b \in HeaderFilesTitled({<<97>>})}
    \cup
    {[entry |-> e, req |-> VestaNamedRequest(e), file |-> Binary(StdFile),
      old |-> Absent] : e \in {"cli", "gui", "api"}}
    \cup
    {[entry |-> e, req |-> SameFileRequest, file |-> Binary(StdFile),
      old |-> Absent] : e \in {"cli", "api"}}
    \cup
    {[entry |-> e, req |-> StubOnInputRequest(e), file |-> Binary(StdFile),
      old |-> Absent] : e \in {"cli", "gui", "api"}}
    \cup
    {[entry |-> "api", req |-> GoodRequest(<<"max">>, None), file |-> Binary(b),
      old |-> Absent] : b \in SymmetryFiles}

\* ------------------------------------------------------------ conversion
TruncIdle ==
    /\ t_pc = "idle"
    /\ t_string = <<>>
    /\ t_len = 0
    /\ t_out = <<>>

Init ==
    /\ \E sc \in Scenarios :
        /\ entry = sc.entry
        /\ request = sc.req
        /\ fs = [p \in AllPaths |->
                    IF p = sc.req.input THEN sc.file
                    ELSE IF p = sc.req.output THEN sc.old ELSE Absent]
    /\ fs0 = fs
    /\ pc = "entry"
    /\ args = NoArgs
    /\ header = NoHeader
    /\ header0 = NoHeader
    /\ indices = None
    /\ input_data = <<>>
    /\ extr = None
    /\ output_data = <<>>
    /\ max_opp = NaN
    /\ exc = NoExc
    /\ stdout = <<>>
    /\ readback = NoRead
    /\ handles = {}
    /\ gui = GuiIdle
    /\ TruncIdle

\* the command line: parse_arguments() and the choice of the extremum's
\* source; on an error argparse exits with status 2
ParseArguments ==
    /\ entry = "cli"
    /\ pc = "entry"
    /\ LET r == parse_arguments(request, fs)
       IN  /\ fs' = r.fs
           /\ args' = r.args
           /\ pc' = IF r.exit = 0 THEN "read" ELSE "exit"
           /\ exc' = IF r.exit = 0 THEN NoExc ELSE Exc("SystemExit", "2")
    /\ UNCHANGED <<entry, request, fs0, header, header0, indices, input_data, extr,
                   output_data, max_opp, stdout, readback, tvars>>
    /\ handles' = parse_arguments(request, fs).handles
    /\ UNCHANGED gui

\* the GUI's event 'sd_okay': the checks, then the error popup, or the
\* button is disabled and calc_opp is called
SdOkay ==
    /\ entry = "gui"
    /\ pc = "entry"
    /\ IF sd_okay_valid(request, fs)
       THEN /\ args' = sd_okay_args(request)
            /\ pc' = "read"
            /\ gui' = [gui EXCEPT !.disabled = TRUE]
       ELSE /\ args' = args
            /\ pc' = "popup"
            /\ gui' = [gui EXCEPT !.popup = "Error", !.shown = "Error"]
    /\ UNCHANGED <<entry, request, fs, fs0, header, header0, indices, input_data, extr,
                   output_data, max_opp, exc, stdout, readback, tvars>>
    /\ UNCHANGED handles

\* a slip: calc_opp opens the output grid as it starts
DirectCall_opening ==
    /\ entry = "api"
    /\ pc = "entry"
    /\ args' = direct_args(request)
    /\ pc' = "read"
    /\ fs' = [fs EXCEPT ![request.output] = Binary(<<>>)]
    /\ UNCHANGED <<entry, request, fs0, header, header0, indices, input_data, extr,
                   output_data, max_opp, exc, stdout, readback, tvars>>
    /\ UNCHANGED handles
    /\ UNCHANGED gui

\* a direct call of calc_opp
DirectCall ==
    /\ entry = "api"
    /\ pc = "entry"
    /\ args' = direct_args(request)
    /\ pc' = "read"
    /\ UNCHANGED <<entry, request, fs, fs0, header, header0, indices, input_data, extr,
                   output_data, max_opp, exc, stdout, readback, tvars>>
    /\ UNCHANGED handles
    /\ UNCHANGED gui

\* calc_opp: hello() and "Read in data and display information"
ReadGrid ==
    /\ pc = "read"
    /\ LET f == fs[args.input_file]
           r == IF f.kind = "absent"
                THEN ReadFailure("FileNotFoundError", "No such file or directory", FALSE)
                ELSE read_grid(f.bytes)
           said == <<"hello", "Opening input file and reading data ... ">>
                   \o (IF r.warned THEN <<"Input file version not supported.">> ELSE <<>>)
       IN  /\ header' = r.header
           /\ header0' = r.header
           /\ indices' = r.indices
           /\ input_data' = r.data
           /\ IF r.exc = ""
              THEN /\ exc' = NoExc
                   /\ pc' = "extremum"
                   /\ stdout' = stdout \o said
                        \o (IF r.msg # "" THEN <<r.msg>> ELSE <<>>)
                        \o <<"Done.", "summary">>
              ELSE /\ exc' = Exc(r.exc, r.msg)
                   /\ pc' = "raised"
                   /\ stdout' = stdout \o said
                        \o (IF r.exc = "SystemExit" THEN <<"Failed.">> ELSE <<>>)
    /\ UNCHANGED <<entry, request, fs, fs0, args, extr, output_data, max_opp,
                   readback, tvars>>
    /\ handles' = Scoped(handles, Handle(args.input_file, "rb", "read_grid"),
                          fs[args.input_file].kind # "absent")
    /\ UNCHANGED gui

\* calc_opp: "Find extremal density"
FindExtremum ==
    /\ pc = "extremum"
    /\ IF args.source = "custom"
       THEN IF args.extr = None
            THEN /\ exc' = Exc("TypeError", "must be real number, not NoneType")
                 /\ extr' = extr
                 /\ pc' = "raised"
                 /\ stdout' = stdout
            ELSE /\ exc' = exc
                 /\ extr' = args.extr
                 /\ pc' = "transform"
                 /\ stdout' = stdout \o <<"Extremal density given">>
       ELSE IF input_data = <<>>
            THEN /\ exc' = Exc("ValueError", "zero-size array to reduction operation")
                 /\ extr' = extr
                 /\ pc' = "raised"
                 /\ stdout' = stdout
            ELSE /\ exc' = exc
                 /\ extr' = Some(IF args.source = "min" THEN ArrayMin(input_data)
                                 ELSE ArrayMax(input_data))
                 /\ pc' = "transform"
                 /\ stdout' = stdout \o <<IF args.source = "min"
                                          THEN "Minimum density found"
                                          ELSE "Maximum density found">>
    /\ UNCHANGED <<entry, request, fs, fs0, args, header, header0, indices, input_data,
                   output_data, max_opp, readback, tvars>>
    /\ UNCHANGED handles
    /\ UNCHANGED gui

\* calc_opp: "The real magic happens here"
Transform ==
    /\ pc = "transform"
    /\ LET raw == RawOpp(input_data, args.temp, extr[1])
       IN  IF raw = <<>>
           THEN /\ exc' = Exc("ValueError", "zero-size array to reduction operation")
                /\ output_data' = raw
                /\ max_opp' = max_opp
                /\ pc' = "raised"
                /\ stdout' = stdout \o <<"Calculating OPP ... ">>
           ELSE /\ exc' = exc
                /\ output_data' = Clamp(raw, NanMax(raw))
                /\ max_opp' = NanMax(raw)
                /\ pc' = "write"
                /\ stdout' = stdout \o <<"Calculating OPP ... ", "Done.",
                                         "Maximal finite OPP">>
    /\ UNCHANGED <<entry, request, fs, fs0, args, header, header0, indices, input_data,
                   extr, readback, tvars>>
    /\ UNCHANGED handles
    /\ UNCHANGED gui

\* calc_opp: "Write out data": the title is cropped, then write_grid runs;
\* done = -1 is a failure of open, done below the size of the complete file
\* an I/O error that leaves the first done bytes in the file
WriteGrid ==
    /\ pc = "write"
    /\ LET titled == [header EXCEPT
                         !.title = mbyte_truncate(OPPFrom \o header.title, TitleMax)]
           n == WriteSize(titled, indices, output_data)
       IN  \E done \in -1 .. n :
            /\ header' = WriteHeader(titled, output_data)
            /\ fs' = [fs EXCEPT ![args.output_file] =
                         written_file(@, titled, indices, output_data, done)]
            /\ handles' = Scoped(handles, Handle(args.output_file, "wb", "write_grid"),
                                  done >= 0)
            /\ IF done = n
               THEN /\ exc' = exc
                    /\ pc' = "vesta"
                    /\ stdout' = stdout \o <<"Opening output file and writing data ... ",
                                             "Done.">>
               ELSE /\ exc' = Exc("OSError", "write_grid")
                    /\ pc' = "raised"
                    /\ stdout' = stdout \o <<"Opening output file and writing data ... ">>
    /\ UNCHANGED <<entry, request, fs0, args, header0, indices, input_data, extr,
                   output_data, max_opp, readback, tvars>>
    /\ UNCHANGED gui

\* calc_opp: "Build VESTA file for easy visualization", then goodbye()
CreateVesta ==
    /\ pc = "vesta"
    /\ \E done \in -1 .. VestaWrites :
        /\ fs' = IF done < 0 THEN fs
                 ELSE [fs EXCEPT ![StubPath(args.output_file)] =
                          create_vesta(args.output_file, header.title, max_opp,
                                       header.ftype, done)]
        /\ handles' = Scoped(handles, Handle(StubPath(args.output_file), "w",
                                              "create_vesta"), done >= 0)
        /\ IF done = VestaWrites
           THEN /\ exc' = exc
                /\ pc' = "done"
                /\ stdout' = stdout \o <<"Creating VESTA file ... ", "Done.", "goodbye">>
           ELSE /\ exc' = Exc("OSError", "create_vesta")
                /\ pc' = "raised"
                /\ stdout' = stdout \o <<"Creating VESTA file ... ">>
    /\ UNCHANGED <<entry, request, fs0, args, header, header0, indices, input_data, extr,
                   output_data, max_opp, readback, tvars>>
    /\ UNCHANGED gui

\* the GUI's event 'sd_okay' after the call of calc_opp: the button is
\* enabled again when calc_opp has returned; 'except Exception' opens the
\* window of subroutine_error_popup('SD2OPP', ...), which waits for its own
\* events with the button still disabled; SystemExit is no Exception, it
\* leaves the event loop and ends the program
SdOkayReturn ==
    /\ entry = "gui"
    /\ pc \in {"done", "raised"}
    /\ gui.disabled
    /\ gui.running
    /\ gui.popup = ""
    /\ gui' = IF pc = "done" THEN [gui EXCEPT !.disabled = FALSE]
              ELSE IF IsException(exc.kind)
                  THEN [gui EXCEPT !.popup = "Subroutine Error",
                                   !.shown = "Subroutine Error"]
              ELSE [gui EXCEPT !.running = FALSE]
    /\ UNCHANGED <<entry, pc, request, fs, fs0, args, header, header0, indices,
                   input_data, extr, output_data, max_opp, exc, stdout, readback,
                   handles, tvars>>

\* sg.popup_error(..., title='Error') returns when the user closes it, and
\* the main window waits for its next event
ErrorPopupClosed ==
    /\ entry = "gui"
    /\ pc = "popup"
    /\ gui.popup = "Error"
    /\ gui' = [gui EXCEPT !.popup = ""]
    /\ UNCHANGED <<entry, pc, request, fs, fs0, args, header, header0, indices,
                   input_data, extr, output_data, max_opp, exc, stdout, readback,
                   handles, tvars>>

\* subroutine_error_popup, event '-CLIPBOARD-': sg.clipboard_set(...), then
\* the note that the message was copied; an error of the clipboard is raised
\* out of the handler of 'sd_okay' and ends the program
SubroutineErrorClipboard ==
    /\ entry = "gui"
    /\ gui.popup = "Subroutine Error"
    /\ gui.running
    /\ \E ok \in BOOLEAN :
        gui' = IF ok THEN [gui EXCEPT !.copied = TRUE]
               ELSE [gui EXCEPT !.running = FALSE]
    /\ UNCHANGED <<entry, pc, request, fs, fs0, args, header, header0, indices,
                   input_data, extr, output_data, max_opp, exc, stdout, readback,
                   handles, tvars>>

\* subroutine_error_popup, event '-EMAIL-': web_open of a mailto URL
SubroutineErrorEmail ==
    /\ entry = "gui"
    /\ gui.popup = "Subroutine Error"
    /\ gui.running
    /\ gui' = [gui EXCEPT !.mailed = TRUE]
    /\ UNCHANGED <<entry, pc, request, fs, fs0, args, header, header0, indices,
                   input_data, extr, output_data, max_opp, exc, stdout, readback,
                   handles, tvars>>

\* subroutine_error_popup, event 'close' or the window closed: the popup
\* returns and the handler of 'sd_okay' enables the button
SubroutineErrorClose ==
    /\ entry = "gui"
    /\ gui.popup = "Subroutine Error"
    /\ gui.running
    /\ gui' = [gui EXCEPT !.popup = "", !.disabled = FALSE]
    /\ UNCHANGED <<entry, pc, request, fs, fs0, args, header, header0, indices,
                   input_data, extr, output_data, max_opp, exc, stdout, readback,
                   handles, tvars>>

Next ==
    \/ ParseArguments
    \/ SdOkay
    \/ SdOkayReturn
    \/ ErrorPopupClosed
    \/ SubroutineErrorClipboard
    \/ SubroutineErrorEmail
    \/ SubroutineErrorClose
    \/ DirectCall
    \/ ReadGrid
    \/ FindExtremum
    \/ Transform
    \/ WriteGrid
    \/ CreateVesta

Spec == Init /\ [][Next]_vars

\* ------------------------------------------- write_grid, called directly
\* the titles of the headers given to write_grid: at most 79 characters, of
\* 0 to TitleSlot + 1 bytes
CodecTitles ==
    {Repeat(97, k) \o t :
        k \in {0, TitleSlot - 3}, t \in StringsUpTo(1)}

\* the headers given: as the docstring of write_grid asks (three dimensions,
\* a record type of 0 or 1), with any nval and nasym
CodecHeaders ==
    {GridHeader(<<3, 0, 0, 0>>, title, ftype, counts[1], 3, counts[2]) :
        title \in CodecTitles, ftype \in {0, 1}, counts \in {<<1, 0>>, <<2, 5>>}}

\* the data arrays given, and the index arrays (of any length)
CodecData == ArraysUpTo({Fin(179209800), Inf(1)}, MaxRecords)

CodecIndices == {SubSeq(<<7, 3, 9, 4, 6>>, 1, n) : n \in 0 .. MaxRecords}

InitCodec ==
    /\ entry = "codec"
    /\ pc = "write_direct"
    /\ request = NoRequest
    /\ fs \in {[p \in AllPaths |-> IF p = OutputPath THEN old ELSE Absent] :
                  old \in {Absent, Binary(OldBytes)}}
    /\ fs0 = fs
    /\ args = CallArgs(EmptyPath, OutputPath, 0, "", None)
    /\ header \in CodecHeaders
    /\ header0 = header
    /\ indices \in {None} \cup {Some(i) : i \in CodecIndices}
    /\ (indices = None) = (header.ftype = 0)
    /\ input_data = <<>>
    /\ extr = None
    /\ output_data \in CodecData
    /\ max_opp = NaN
    /\ exc = NoExc
    /\ stdout = <<>>
    /\ readback = NoRead
    /\ handles = {}
    /\ gui = GuiIdle
    /\ TruncIdle

\* write_grid(file, header, indices, data): done = -1 is a failure of open,
\* done below the size of the complete file an I/O error that leaves the
\* first done bytes in the file
WriteDirect ==
    /\ pc = "write_direct"
    /\ LET n == WriteSize(header, indices, output_data)
       IN  \E done \in -1 .. n :
            /\ header' = WriteHeader(header, output_data)
            /\ fs' = [fs EXCEPT ![args.output_file] =
                         written_file(@, header, indices, output_data, done)]
            /\ handles' = Scoped(handles, Handle(args.output_file, "wb", "write_grid"),
                                  done >= 0)
            /\ IF done = n
               THEN exc' = exc /\ pc' = "written"
               ELSE exc' = Exc("OSError", "write_grid") /\ pc' = "raised"
    /\ UNCHANGED <<entry, request, fs0, args, header0, indices, input_data, extr,
                   output_data, max_opp, stdout, readback, tvars>>
    /\ UNCHANGED gui

\* read_grid(file) of the file just written
ReadBack ==
    /\ pc = "written"
    /\ readback' = read_grid(fs[args.output_file].bytes)
    /\ pc' = "read_back"
    /\ UNCHANGED <<entry, request, fs, fs0, args, header, header0, indices,
                   input_data, extr, output_data, max_opp, exc, stdout, tvars>>
    /\ handles' = Scoped(handles, Handle(args.output_file, "rb", "read_grid"), TRUE)
    /\ UNCHANGED gui

NextCodec == WriteDirect \/ ReadBack

SpecCodec == InitCodec /\ [][NextCodec]_vars

\* ----------------------------------------------- mbyte_truncate, alone
\* the strings drawn: a run of 'a' (none, or long enough to bring
\* 'OPP from ' + string to the crop length) followed by a free tail
PadLengths == {0} \cup ((TitleMax - Len(OPPFrom) - 3) .. (TitleMax - Len(OPPFrom)))

TruncStrings == {Repeat(97, k) \o t : k \in PadLengths, t \in StringsUpTo(MaxTail)}

PipelineIdle ==
    /\ entry = "none"
    /\ pc = "idle"
    /\ request = NoRequest
    /\ fs = [p \in AllPaths |-> Absent]
    /\ fs0 = fs
    /\ args = NoArgs
    /\ header = NoHeader
    /\ header0 = NoHeader
    /\ indices = None
    /\ input_data = <<>>
    /\ extr = None
    /\ output_data = <<>>
    /\ max_opp = NaN
    /\ exc = NoExc
    /\ stdout = <<>>
    /\ readback = NoRead
    /\ handles = {}
    /\ gui = GuiIdle

InitTrunc ==
    /\ PipelineIdle
    /\ t_pc = "call"
    /\ t_string \in TruncStrings
    /\ t_len \in (0 .. MaxBytes) \cup {TitleMax}
    /\ t_out = <<>>

\* mbyte_truncate(t_string, t_len)
Truncate ==
    /\ t_pc = "call"
    /\ t_out' = mbyte_truncate(t_string, t_len)
    /\ t_pc' = "truncated"
    /\ UNCHANGED <<t_string, t_len, pvars>>

\* the call calc_opp makes: mbyte_truncate('OPP from ' + title, 79, 'utf-8')
Retitle ==
    /\ t_pc = "call"
    /\ t_len = TitleMax
    /\ t_out' = mbyte_truncate(OPPFrom \o t_string, TitleMax)
    /\ t_pc' = "retitled"
    /\ UNCHANGED <<t_string, t_len, pvars>>

NextTrunc == Truncate \/ Retitle

SpecTrunc == InitTrunc /\ [][NextTrunc]_vars

\* ----------------------------------------------------------------- C10
\* what mbyte_truncate promises of its result out for the string s and the
\* byte length n
TruncatedTo(out, s, n) ==
    /\ Len(EncodeUtf8(out)) <= n
    /\ IsPrefix(EncodeUtf8(out), EncodeUtf8(s))
    /\ IsPrefix(out, s)

\* C10: mbyte_truncate(s, n) encodes to at most n bytes, its encoding is a
\* byte prefix of the encoding of s and it ends on a code-point boundary (it
\* is a prefix of s by code points); the title calc_opp makes is such a
\* prefix of 'OPP from ' + title of at most 79 bytes.
C10_TruncatePrefix ==
    /\ t_pc = "truncated" => TruncatedTo(t_out, t_string, t_len)
    /\ t_pc = "retitled" => TruncatedTo(t_out, OPPFrom \o t_string, TitleMax)

\* a crop that falls inside a multi-byte character, and a retitled title
\* that had to be cropped inside one
C10_Witness ==
    \/ /\ t_pc = "truncated"
       /\ Len(EncodeUtf8(t_string)) > t_len
       /\ Len(EncodeUtf8(t_out)) < t_len
    \/ /\ t_pc = "retitled"
       /\ Len(EncodeUtf8(t_out)) < TitleMax
       /\ Len(t_out) < Len(OPPFrom \o t_string)

\* ------------------------------------------------------- C1 to C5: calc_opp
\* the transform of a run of calc_opp has returned
AfterTransform ==
    /\ entry \in {"cli", "gui", "api"}
    /\ pc \in {"write", "vesta", "done"} \/ (pc = "raised" /\ exc.kind = "OSError")

\* the field -K_B * temp * log(input_data/extr) before anything is replaced
ComputedField == RawOpp(input_data, args.temp, extr[1])

\* the largest finite entry of an array that has one
FiniteMax(arr) ==
    LET fin == {k \in 1 .. Len(arr) : IsFinite(arr[k])}
    IN  arr[CHOOSE k \in fin : \A j \in fin : arr[j][2] <= arr[k][2]]

\* C1: when at least one voxel yields a finite OPP, max_opp is the maximum of
\* the finite entries of the computed field, every non-finite entry is
\* replaced by it and every finite one is kept, so the output field holds
\* finite values only.
C1_ClampToFiniteMax ==
    (AfterTransform /\ \E k \in 1 .. Len(ComputedField) : IsFinite(ComputedField[k]))
    => /\ max_opp = FiniteMax(ComputedField)
       /\ \A k \in 1 .. Len(output_data) :
            /\ IsFinite(output_data[k])
            /\ output_data[k] = IF IsFinite(ComputedField[k]) THEN ComputedField[k]
                                ELSE FiniteMax(ComputedField)

\* C2: when every voxel yields a non-finite OPP the conversion fails with
\* DegenerateField, and neither the grid file nor the stub is written.
C2_DegenerateFieldFails ==
    (/\ AfterTransform
     /\ ComputedField # <<>>
     /\ \A k \in 1 .. Len(ComputedField) : ~IsFinite(ComputedField[k]))
    => /\ pc = "raised"
       /\ exc.kind = "DegenerateField"
       /\ fs = fs0

\* C3: the transform is never evaluated with an extremum of zero, whatever
\* the policy that gave it: no run gets past the transform with extr = 0.
C3_ExtremumNeverZero == AfterTransform => extr[1] # Fin(0)

\* C4: a conversion asked for with temperature <= 0 never gets to the
\* transform, from the command line, from the GUI or in a direct call.
C4_TemperaturePositive == AfterTransform => args.temp > 0

\* a command line that is malformed: the temperature, the value of
\* --extremum, or the number of extremum flags (one flag given twice is
\* accepted, and read as given once)
Malformed(req) ==
    \/ ~pos_float(req.temp)
    \/ Cardinality({req.flags[i] : i \in 1 .. Len(req.flags)}) # 1
    \/ \E i \in 1 .. Len(req.flags) :
          req.flags[i] = "ext" /\ ~non_zero_float(req.extr[1])

\* C5: a command line with malformed arguments exits non-zero and has not
\* created, truncated or otherwise touched a file.
C5_MalformedTouchesNoFile ==
    (entry = "cli" /\ pc # "entry" /\ Malformed(request))
    => /\ pc = "exit"
       /\ exc = Exc("SystemExit", "2")
       /\ fs = fs0

\* ---------------------------------------------------- C6 to C9: write_grid
\* the complete file write_grid writes for what it was given
CompleteFile == Flatten(WriteChunks(header0, indices, output_data))

\* the file at the path given to write_grid
Written == fs[args.output_file]

\* write_grid has returned
Returned == entry = "codec" /\ pc \in {"written", "read_back"}

\* C6 (as stated): after an I/O error between open and the last record the
\* output path is unchanged or holds the complete file.
C6_NoPartialFile ==
    (entry = "codec" /\ pc = "raised")
    => Written = fs0[args.output_file] \/ Written = Binary(CompleteFile)

\* C6 (amended): write_grid is not atomic. A failure of open leaves the path
\* as it was; after open the old content is gone and the file holds the
\* bytes that reached it, a prefix of the complete file that may end within
\* a field; the file is complete when write_grid returns.
C6_PrefixOnFailure ==
    /\ (entry = "codec" /\ pc = "raised")
       => \/ Written = fs0[args.output_file]
          \/ /\ Written.kind = "binary"
             /\ IsPrefix(Written.bytes, CompleteFile)
    /\ Returned => Written = Binary(CompleteFile)

\* an I/O error within the title: an old file is gone and a proper,
\* non-empty part of the new one is there
C6_Witness ==
    /\ entry = "codec"
    /\ pc = "raised"
    /\ fs0[args.output_file] = Binary(OldBytes)
    /\ Written.kind = "binary"
    /\ Len(Written.bytes) = OffTitle + 1
    /\ Len(Written.bytes) < Len(CompleteFile)

\* where the field after the title starts in the file written: the title
\* takes TitleSlot bytes, or its own length when that is more
TitleEnd ==
    LET n == Len(EncodeUtf8(header0.title))
    IN  OffTitle + (IF n > TitleSlot THEN n ELSE TitleSlot)

\* C7: the values-per-record field written is 1 and the record count written
\* is the length of the data array, whatever nval and nasym the header held.
C7_ForcedCounts ==
    Returned
    => /\ Int32At(Written.bytes, TitleEnd + 8) = 1
       /\ Int32At(Written.bytes, TitleEnd + 28) = Len(output_data)
       /\ header.nval = 1
       /\ header.nasym = Len(output_data)

\* a header given with nval = 2 and a record count that is not the length of
\* the data
C7_Witness ==
    /\ Returned
    /\ header0.nval = 2
    /\ header0.nasym # Len(output_data)
    /\ output_data # <<>>

\* C8: read_grid of the file write_grid wrote returns the same grid shape,
\* cell parameters and values; the same indices in the same order for an
\* indexed file and no indices for a raw one (index and data arrays of equal
\* length given).
C8_RoundTrip ==
    (/\ entry = "codec"
     /\ pc = "read_back"
     /\ indices # None => Len(indices[1]) = Len(output_data))
    => /\ readback.exc = ""
       /\ readback.header.ngrid = header0.ngrid
       /\ readback.header.cell = header0.cell
       /\ readback.data = output_data
       /\ readback.indices = indices

\* C9: the title written takes exactly TitleSlot bytes, the title cropped to
\* at most TitleMax bytes and padded with zero bytes, so that the grid type
\* follows at its fixed offset.
C9_TitleSlot ==
    Returned
    => /\ SubSeq(Written.bytes, OffTitle, OffGtype - 1)
            = PlainBytes(Ljust(EncodeUtf8(mbyte_truncate(header0.title, TitleMax)),
                               TitleSlot))
       /\ Int32At(Written.bytes, OffGtype) = header0.gtype

\* ------------------------------------------ C11, C12: the extremal density
\* the extremum of a run of calc_opp has been found
ExtremumFound == entry \in {"cli", "gui", "api"} /\ extr # None

\* x is an entry of arr and no entry is smaller (larger)
IsLeastOf(x, arr) ==
    /\ \E k \in 1 .. Len(arr) : arr[k] = x
    /\ \A k \in 1 .. Len(arr) : FloatLeq(x, arr[k])

IsGreatestOf(x, arr) ==
    /\ \E k \in 1 .. Len(arr) : arr[k] = x
    /\ \A k \in 1 .. Len(arr) : FloatLeq(arr[k], x)

\* C11: the extremum the transform uses is the minimum of the densities read
\* with policy 'min', their maximum with policy 'max', and the value the
\* caller gave, unmodified, with policy 'custom'.
C11_ExtremumSelected ==
    ExtremumFound
    => /\ args.source = "min" => IsLeastOf(extr[1], input_data)
       /\ args.source = "max" => IsGreatestOf(extr[1], input_data)
       /\ args.source = "custom" => extr[1] = Fin(request.extr[1].val)

\* a field of several densities, positive and negative, under policy 'min'
C11_Witness ==
    /\ ExtremumFound
    /\ args.source = "min"
    /\ Len(input_data) = 3
    /\ extr[1] = Fin(-2)
    /\ \E k \in 1 .. 3 : input_data[k] = Fin(2)

\* read_grid has returned an empty field to a run with policy 'min' or 'max',
\* and the search for the extremum is over
EmptyFieldSearched ==
    /\ entry \in {"cli", "gui", "api"}
    /\ pc \notin {"entry", "exit", "popup", "read", "extremum"}
    /\ header0 # NoHeader
    /\ input_data = <<>>
    /\ args.source \in {"min", "max"}

\* C12: on an input file with no voxel record a conversion with policy 'min'
\* or 'max' fails at the search for the extremum with an error of the
\* invalid-argument class (ValueError), before the transform has run and
\* before the output grid or the stub is created.
C12_EmptyFieldFailsEarly ==
    EmptyFieldSearched
    => /\ pc = "raised"
       /\ exc.kind = "ValueError"
       /\ extr = None
       /\ output_data = <<>>
       /\ fs[args.output_file] = fs0[args.output_file]
       /\ fs[StubPath(args.output_file)] = fs0[StubPath(args.output_file)]

\* ------------------------------------------------- C13 to C17: read_grid
\* the files when calc_opp was called (on the command line the parser has
\* opened the output by then)
FsAtCall == IF entry = "cli" THEN parse_arguments(request, fs0).fs ELSE fs0

\* the grid file a run of calc_opp reads, as it is when calc_opp is called,
\* and read_grid has been called on it
InputBytes == FsAtCall[args.input_file].bytes

ReadCalled ==
    /\ entry \in {"cli", "gui", "api"}
    /\ pc \notin {"entry", "exit", "popup", "read"}
    /\ FsAtCall[args.input_file].kind = "binary"

\* read_grid has left with sys.exit(msg), with no header and no field
ExitedWith(msg) ==
    /\ pc = "raised"
    /\ exc = Exc("SystemExit", msg)
    /\ header0 = NoHeader
    /\ indices = None
    /\ input_data = <<>>

\* C13: read_grid fails, with no header and no field, on a record type
\* outside {0, 1}, on a number of values per record outside {1, 2} and on a
\* dimensionality other than 3 (sys.exit with the message of the check); the
\* fields are checked in the order of the file, so the first one that
\* offends decides the error, and no record is read before.
C13_HeaderChecksInOrder ==
    (ReadCalled /\ Len(InputBytes) >= OffNgrid - 1)
    => LET ftype == Int32At(InputBytes, OffFtype)
           nval == Int32At(InputBytes, OffNval)
           ndim == Int32At(InputBytes, OffNdim)
       IN  IF ftype \notin {0, 1} THEN ExitedWith("File record type not supported.")
           ELSE IF nval \notin {1, 2}
               THEN ExitedWith("Unable to handle number of values per voxel.")
           ELSE IF ndim # 3
               THEN ExitedWith("Unit cell must be three-dimensional in this version.")
           ELSE exc.kind # "SystemExit"

\* a header with two offending fields: the earlier one is reported
C13_Witness ==
    /\ ReadCalled
    /\ Len(InputBytes) >= OffNgrid - 1
    /\ Int32At(InputBytes, OffFtype) = 1
    /\ Int32At(InputBytes, OffNval) = 3
    /\ Int32At(InputBytes, OffNdim) = 2
    /\ ExitedWith("Unable to handle number of values per voxel.")

\* the warning read_grid prints for a version that is not 3.0.0.0
VersionWarning == "Input file version not supported."

Printed(line) == \E i \in 1 .. Len(stdout) : stdout[i] = line

\* what read_grid returns for the same bytes under the version 3.0.0.0
AsVersion3 == read_grid(Int32ArrayBytes(<<3, 0, 0, 0>>) \o Drop(InputBytes, 16))

\* C14: a version other than 3.0.0.0 is not fatal: read_grid prints a
\* warning and goes on with the same layout; it returns the header and the
\* field it returns for the same bytes under version 3.0.0.0, but for the
\* version itself (and fails as it fails there).
C14_VersionNotFatal ==
    (ReadCalled /\ Len(InputBytes) >= 16)
    => LET version == Int32ArrayAt(InputBytes, 1, 4)
           r3 == AsVersion3
       IN  /\ Printed(VersionWarning) = (version # <<3, 0, 0, 0>>)
           /\ ~r3.warned
           /\ IF r3.exc = ""
              THEN /\ header0 = [r3.header EXCEPT !.version = version]
                   /\ indices = r3.indices
                   /\ input_data = r3.data
              ELSE /\ pc = "raised"
                   /\ exc = Exc(r3.exc, r3.msg)
                   /\ header0 = NoHeader

\* a file of version 2.0.0.0 that was read, with a warning, and converted
C14_Witness ==
    /\ ReadCalled
    /\ Len(InputBytes) >= 16
    /\ Int32ArrayAt(InputBytes, 1, 4) = <<2, 0, 0, 0>>
    /\ Printed(VersionWarning)
    /\ header0.version = <<2, 0, 0, 0>>
    /\ header0.ftype = 1
    /\ Len(input_data) = 2
    /\ pc = "done"

\* the warning read_grid prints when the file does not hold nasym records
CountWarning == "Number of found records differs"

\* the field has been read
FieldRead == ReadCalled /\ header0 # NoHeader

\* the number of whole records the input file holds after its header
RecordsHeld ==
    LET indexed == header0.ftype = 1
        first == IF indexed THEN OffSym + 24 + 48 * Len(header0.symop[1]) ELSE OffSym
        size == (IF indexed THEN 4 ELSE 0) + 4 * header0.nval
    IN  (Len(InputBytes) - (first - 1)) \div size

\* the output grid of a run that got past write_grid
OutputBytes == fs[args.output_file].bytes

\* C15: a record count in the header that differs from the number of
\* records in the file is not fatal: in each of the four layouts read_grid
\* prints a warning and returns as many records as the file holds, and the
\* output grid written states that number as its record count (the grid as
\* write_grid leaves it).
C15_RecordCountNotFatal ==
    FieldRead
    => /\ Len(input_data) = RecordsHeld
       /\ indices # None => Len(indices[1]) = RecordsHeld
       /\ Printed(CountWarning) = (header0.nasym # RecordsHeld)
       /\ (pc \in {"vesta", "done"} /\ fs[args.output_file].kind = "binary")
          => /\ header.nasym = RecordsHeld
             /\ Int32At(OutputBytes, OffNasym) = RecordsHeld
             /\ Len(OutputBytes)
                  = (IF header0.ftype = 1
                     THEN OffSym + 23 + 48 * Len(header0.symop[1]) + 8 * RecordsHeld
                     ELSE OffSym - 1 + 4 * RecordsHeld)

\* an indexed file of two records with two values each whose header states
\* five, converted
C15_Witness ==
    /\ FieldRead
    /\ header0.ftype = 1
    /\ header0.nval = 2
    /\ header0.nasym = 5
    /\ RecordsHeld = 2
    /\ Printed(CountWarning)
    /\ pc = "done"
    /\ Int32At(OutputBytes, OffNasym) = 2

\* where record k of the input file starts
RecordAt(k) ==
    LET indexed == header0.ftype = 1
        first == IF indexed THEN OffSym + 24 + 48 * Len(header0.symop[1]) ELSE OffSym
        size == (IF indexed THEN 4 ELSE 0) + 4 * header0.nval
    IN  first + size * (k - 1)

\* C16: for a file with two values per record, raw or indexed, read_grid
\* returns one density per record, the sum of the positive and the negative
\* component of the record, and as many densities as there are records.
C16_DualRecordsSummed ==
    (FieldRead /\ header0.nval = 2)
    => /\ Len(input_data) = RecordsHeld
       /\ \A k \in 1 .. Len(input_data) :
            LET at == RecordAt(k) + (IF header0.ftype = 1 THEN 4 ELSE 0)
                pos == FloatAt(InputBytes, at)
                neg == FloatAt(InputBytes, at + 4)
            IN  /\ IsFinite(pos) /\ IsFinite(neg)
                /\ input_data[k] = Fin(pos[2] + neg[2])

\* the records (1, 1) and (3, -2) of an indexed file read as 2 and 1
C16_Witness ==
    /\ FieldRead
    /\ header0.nval = 2
    /\ header0.ftype = 1
    /\ FloatAt(InputBytes, RecordAt(2) + 4) = Fin(3)
    /\ FloatAt(InputBytes, RecordAt(2) + 8) = Fin(-2)
    /\ input_data = <<Fin(2), Fin(1)>>

\* the fields of the symmetry block of a header
SymmetryBlock(h) == <<h.npos, h.ncen, h.nsub, h.symop, h.subposp>>

\* C17: in every result of read_grid the indices and the five fields of the
\* symmetry block are there exactly when the file is indexed and are None
\* exactly when it is raw; the indices are as many as the values.
C17_IndexedAsUnit ==
    FieldRead
    => /\ header0.ftype \in {0, 1}
       /\ header0.ftype = 1
          => /\ indices # None
             /\ \A i \in 1 .. 5 : SymmetryBlock(header0)[i] # None
             /\ Len(indices[1]) = Len(input_data)
       /\ header0.ftype = 0
          => /\ indices = None
             /\ \A i \in 1 .. 5 : SymmetryBlock(header0)[i] = None

\* an indexed file read: two indices, two values and the symmetry block
C17_Witness ==
    /\ FieldRead
    /\ header0.ftype = 1
    /\ indices = Some(<<7, 3>>)
    /\ Len(input_data) = 2
    /\ header0.symop = Some(<<StdSymop>>)
    /\ header0.npos = Some(1)

\* ------------------------------------------------------------------- C18
\* write_grid was given an indexed header and index and data arrays of
\* different lengths
UnequalLengths ==
    /\ entry = "codec"
    /\ header0.ftype = 1
    /\ Len(indices[1]) # Len(output_data)

\* C18: write_grid given an indexed header and index and data arrays of
\* different lengths fails (InvalidArgument) instead of returning, so that
\* it leaves no complete file whose record count differs from the number of
\* index+value records it holds.
C18_UnequalLengthsRejected == UnequalLengths => ~Returned

\* ------------------------------------------------------------------- C19
\* a conversion has run to its end
Converted == entry \in {"cli", "gui", "api"} /\ pc = "done"

\* C19: after a conversion the output grid and the stub are two files: the
\* path of the stub is never the path of the output grid, whatever the name
\* of the output (one ending in '.vesta' included), so the grid written is
\* still there when the stub has been written.
C19_GridAndStubDistinct ==
    Converted
    => /\ StubPath(args.output_file) # args.output_file
       /\ fs[args.output_file].kind = "binary"
       /\ fs[args.output_file].bytes
            = Flatten(WriteChunks(header, indices, output_data))
       /\ fs[StubPath(args.output_file)].kind = "text"

\* ------------------------------------------------------------------- C20
\* the command line has been parsed
Parsed == entry = "cli" /\ pc # "entry"

\* the source string for an option of the group
SourceOf(flag) ==
    IF flag = "min" THEN "min" ELSE IF flag = "max" THEN "max" ELSE "custom"

\* the options of the group on the command line
Policies == {request.flags[i] : i \in 1 .. Len(request.flags)}

\* C20: the command line needs exactly one of --minimum, --maximum and
\* --extremum <value>: with none or several of them it is a parse error
\* (one of them given twice is one of them); calc_opp is called with 'min',
\* 'max', or 'custom' and the non-zero value given, and never with 'custom'
\* and no value.
C20_OnePolicyOption ==
    Parsed
    => /\ Cardinality(Policies) # 1 => pc = "exit" /\ args = NoArgs
       /\ pc # "exit"
          => /\ Cardinality(Policies) = 1
             /\ args.source = SourceOf(request.flags[1])
             /\ IF args.source = "custom"
                THEN /\ args.extr = Some(Fin(request.extr[1].val))
                     /\ request.extr[1].val # 0
                ELSE args.extr = None

\* --extremum 2 has become a call with 'custom' and 2
C20_Witness ==
    /\ Parsed
    /\ pc = "read"
    /\ request.flags = <<"ext">>
    /\ args.source = "custom"
    /\ args.extr = Some(Fin(2))

\* ------------------------------------------------------------------- C21
\* calc_opp has been called
InCall ==
    /\ entry \in {"cli", "gui", "api"}
    /\ pc \in {"read", "extremum", "transform", "write", "vesta", "done", "raised"}

\* how many of the stages read, extremum, transform, write, stub are over;
\* for a call that raised, the stages before the one that raised
StagesDone ==
    IF pc = "read" THEN 0
    ELSE IF pc = "extremum" THEN 1
    ELSE IF pc = "transform" THEN 2
    ELSE IF pc = "write" THEN 3
    ELSE IF pc = "vesta" THEN 4
    ELSE IF pc = "done" THEN 5
    ELSE IF exc.kind \in {"FileNotFoundError", "IndexError", "SystemExit"} THEN 0
    ELSE IF exc.kind = "TypeError" THEN 1
    ELSE IF exc.kind = "ValueError" THEN (IF extr = None THEN 1 ELSE 2)
    ELSE IF exc.msg = "write_grid" THEN 3
    ELSE 4

\* the number of lines 'Done.' printed
DoneLines == Cardinality({i \in 1 .. Len(stdout) : stdout[i] = "Done."})

\* C21: calc_opp runs read, extremum, transform, retitle and write, stub in
\* this order and a failure ends the call at its stage: what a stage yields
\* is there only when the stages before it are over, the 'Done.' line of a
\* failed stage and the farewell are not printed, calc_opp does not open the
\* output before the transform is over and there is no stub unless the grid
\* was written.
C21_StagesInOrder ==
    InCall
    => /\ (header0 # NoHeader) = (StagesDone >= 1)
       /\ (extr # None) = (StagesDone >= 2)
       /\ StagesDone < 3
          => output_data = <<>> /\ max_opp = NaN /\ header = header0 /\ fs = FsAtCall
       /\ \A p \in AllPaths : fs[p].kind = "text" => StagesDone >= 4
       /\ StagesDone = 3 => \A p \in AllPaths \ {args.output_file} : fs[p] = FsAtCall[p]
       /\ DoneLines = (IF StagesDone >= 1 THEN 1 ELSE 0) + (IF StagesDone >= 3 THEN 1 ELSE 0)
                      + (IF StagesDone >= 4 THEN 1 ELSE 0) + (IF StagesDone >= 5 THEN 1 ELSE 0)
       /\ Printed("goodbye") = (pc = "done")
       /\ pc = "raised" => exc # NoExc

\* write_grid failed after it had opened the output: no stub, no farewell
C21_Witness ==
    /\ InCall
    /\ pc = "raised"
    /\ exc.msg = "write_grid"
    /\ fs[args.output_file] # FsAtCall[args.output_file]
    /\ fs[StubPath(args.output_file)] = Absent
    /\ DoneLines = 2
    /\ ~Printed("goodbye")

\* ------------------------------------------------------------------- C22
\* create_vesta failed, after write_grid had returned
StubFailed == InCall /\ pc = "raised" /\ exc.msg = "create_vesta"

\* C22: when writing the stub fails after the grid was written, the failure
\* is raised to the caller and the grid written stays as it is, complete.
C22_GridSurvivesStubFailure ==
    StubFailed
    => /\ exc.kind = "OSError"
       /\ fs[args.output_file]
            = Binary(Flatten(WriteChunks(header, indices, output_data)))

\* ------------------------------------------------------------------- C23
\* parse_arguments has returned, or calc_opp was called without it; every
\* other function opens and leaves its file within one step
OpenersLeft == pc \notin {"entry", "exit"}

\* C23: no file object is open once the function that opened it has
\* returned or raised: none of read_grid, write_grid and create_vesta, and
\* none of those the parser of the command line opened on the input and the
\* output.
C23_NoHandleLeftOpen == OpenersLeft => handles = {}

\* ------------------------------------------------------------------- C24
\* calc_opp, called for the event 'sd_okay', has raised and the handler of
\* the event has gone on from the call
GuiCallFailed ==
    /\ entry = "gui"
    /\ pc = "raised"
    /\ gui.shown # "" \/ ~gui.running

\* C24: in the GUI every failure of calc_opp (the exits of read_grid on a
\* record type, a number of values or a dimensionality it does not support
\* included) is caught and shown by subroutine_error_popup('SD2OPP', ...);
\* once the popup is closed the button 'sd_okay' is enabled again and the
\* event loop goes on.
C24_GuiFailureSurfaced ==
    GuiCallFailed
    => /\ gui.shown = "Subroutine Error"
       /\ gui.popup = "" => ~gui.disabled /\ gui.running

\* ------------------------------------------------------------------- C25
\* a run has started on an input file that has a name
Started ==
    /\ entry \in {"cli", "gui", "api"}
    /\ pc # "entry"
    /\ request.input \in AllPaths

\* C25: no conversion alters its input file: from the command line, from the
\* GUI and in a direct call the input holds, when it is read and after the
\* run, what it held before; neither the parser, nor the grid, nor the stub
\* is written over it.
C25_InputUntouched == Started => fs[request.input] = fs0[request.input]

\* ------------------------------------------------------------------- C26
\* write_grid has returned in a run of calc_opp and the grid is in place
GridWritten ==
    /\ entry \in {"cli", "gui", "api"}
    /\ pc \in {"vesta", "done"}
    /\ fs[args.output_file].kind = "binary"

\* the fields of a header a conversion leaves alone
KeptFields(h) ==
    <<h.version, h.gtype, h.ftype, h.ndim, h.ngrid, h.cell, SymmetryBlock(h)>>

\* C26: a conversion changes the title, the number of values per record, the
\* record count and the values only: the version, the grid type, the record
\* type, the dimensionality, the grid shape, the cell, the symmetry block
\* and, for an indexed file, the indices in their order are in the output as
\* they were read, and the output holds as many records as were read.
C26_OnlyTitleCountsValuesChange ==
    GridWritten
    => LET out == read_grid(OutputBytes)
       IN  /\ out.exc = ""
           /\ KeptFields(out.header) = KeptFields(header0)
           /\ out.indices = indices
           /\ Len(out.data) = Len(input_data)
           /\ out.data = output_data
           /\ out.header.nval = 1
           /\ out.header.nasym = Len(input_data)
           /\ SubSeq(OutputBytes, 1, OffTitle - 1) = SubSeq(InputBytes, 1, OffTitle - 1)
           /\ SubSeq(OutputBytes, OffGtype, OffNval - 1)
                = SubSeq(InputBytes, OffGtype, OffNval - 1)
           /\ SubSeq(OutputBytes, OffNdim, OffNasym - 1)
                = SubSeq(InputBytes, OffNdim, OffNasym - 1)

\* an indexed file of version 2.0.0.0 with two values per record and a
\* wrong record count, converted: title and counts differ, the rest is kept
C26_Witness ==
    /\ GridWritten
    /\ pc = "done"
    /\ header0.version = <<2, 0, 0, 0>>
    /\ header0.ftype = 1
    /\ header0.nval = 2
    /\ header0.nasym = 5
    /\ indices = Some(<<7, 3>>)
    /\ read_grid(OutputBytes).indices = Some(<<7, 3>>)
    /\ read_grid(OutputBytes).header.title # header0.title

\* ------------------------------------------------------------------- C27
\* the event 'sd_okay' has been handled up to the call or the error popup
SdOkayHandled == entry = "gui" /\ pc # "entry"

\* the form values are good: the input has a name and exists, the output has
\* a name that is not the input's, the temperature is a float above 0 and,
\* with the custom extremum chosen, the extremum is a float that is not 0
FormGood ==
    /\ request.input # EmptyPath
    /\ request.input \in AllPaths
    /\ fs0[request.input].kind # "absent"
    /\ request.output # EmptyPath
    /\ request.output # request.input
    /\ request.temp.num /\ request.temp.val > 0
    /\ request.flags[1] = "ext" => request.extr[1].num /\ request.extr[1].val # 0

\* C27: the event 'sd_okay' calls calc_opp only for good form values;
\* otherwise it shows the error popup and no file is read or written.
C27_GuiCallsOnlyIfValid ==
    SdOkayHandled
    => IF FormGood
       THEN /\ pc # "popup"
            /\ gui.shown # "Error"
            /\ args = CallArgs(request.input, request.output, request.temp.val,
                               SourceOf(request.flags[1]),
                               IF request.flags[1] = "ext"
                               THEN Some(Fin(request.extr[1].val)) ELSE None)
       ELSE /\ pc = "popup"
            /\ gui \in {[GuiIdle EXCEPT !.popup = "Error", !.shown = "Error"],
                        [GuiIdle EXCEPT !.shown = "Error"]}
            /\ args = NoArgs
            /\ fs = fs0
            /\ header0 = NoHeader
            /\ stdout = <<>>
            /\ handles = {}

\* the output is the input, everything else is good: the popup, no call
C27_Witness ==
    /\ SdOkayHandled
    /\ pc = "popup"
    /\ request.output = request.input
    /\ request.input = InputPath
    /\ fs0[InputPath].kind = "binary"
    /\ request.temp = NumText(300)
    /\ request.flags = <<"ext">>
    /\ request.extr = Some(NumText(2))
    /\ gui.popup = "Error"
    /\ fs = fs0

\* ------------------------------------------------------------------- C28
\* calc_opp was called directly, read_grid has returned a field that is not
\* empty and the search for the extremum is over
ExtremumStageOver ==
    /\ entry = "api"
    /\ FieldRead
    /\ pc # "extremum"
    /\ input_data # <<>>

\* the call has failed at a stage after the search for the extremum
FailedLater ==
    /\ pc = "raised"
    /\ extr # None
    /\ exc.kind \in {"ValueError", "OSError"}

\* C28: a direct call with a source that is none of 'min', 'max', 'custom'
\* is not rejected: the extremum is the maximum of the field, whatever extr
\* was given; a direct call with source 'custom' and no extr fails before the
\* transform and before any output file is written.
C28_UnknownSourceAndMissingExtr ==
    ExtremumStageOver
    => /\ args.source \notin {"min", "max", "custom"}
            => /\ extr # None
               /\ IsGreatestOf(extr[1], input_data)
               /\ Printed("Maximum density found")
               /\ ~Printed("Extremal density given")
               /\ pc \in {"transform", "write", "vesta", "done"} \/ FailedLater
       /\ (args.source = "custom" /\ args.extr = None)
            => /\ pc = "raised"
               /\ exc.kind = "TypeError"
               /\ extr = None
               /\ output_data = <<>>
               /\ ~Printed("Calculating OPP ... ")
               /\ fs = fs0

\* an unknown source with an extr that is not the maximum: the run is over
\* and went on with the maximum
C28_Witness ==
    /\ ExtremumStageOver
    /\ args.source = "other"
    /\ args.extr = Some(Fin(-1))
    /\ args.temp = 300
    /\ pc = "done"
    /\ extr = Some(Fin(2))
    /\ \E k \in 1 .. Len(input_data) : input_data[k] = Fin(-2)
    /\ fs[args.output_file].kind = "binary"
====
